---- MODULE Spec2Model ----
(***************************************************************************)
(* Model of final_assignment.py: ten reporting functions over the two      *)
(* relations cmspop (one row per subject) and cmsclaims (one row per       *)
(* claim).  Each function cleans and validates its arguments, opens a      *)
(* connection, formats one SQL statement, executes it and reshapes the     *)
(* rows into a dictionary.                                                 *)
(*                                                                         *)
(* Python strings are sequences of one-character strings, so that          *)
(* re.sub('\W+', '', s) and s.upper() are computed rather than assumed.    *)
(* A formatted SQL statement is a record naming its template and the       *)
(* values substituted for {0}, {1}, ... in order.  Numbers the queries     *)
(* round to two decimals are carried in hundredths.                        *)
(* Schema assumptions (the schema is not part of the repository): ids are  *)
(* unique in cmspop, every subject has exactly one cmsclaims row, and the  *)
(* three claim columns are whole numbers.                                  *)
(***************************************************************************)
EXTENDS Integers, Sequences, FiniteSets, TLC

VARIABLES db, call, outcome, conns, queries, rows, shape

vars == <<db, call, outcome, conns, queries, rows, shape>>

\* ------------------------------------------------------------------------
\* Bounds
\* ------------------------------------------------------------------------
MaxSubjects == 3

\* ------------------------------------------------------------------------
\* String literals of the source
\* ------------------------------------------------------------------------
heart_fail == <<"h","e","a","r","t","_","f","a","i","l">>
alz_rel_sen == <<"a","l","z","_","r","e","l","_","s","e","n">>
depression == <<"d","e","p","r","e","s","s","i","o","n">>
cancer == <<"c","a","n","c","e","r">>
white == <<"w","h","i","t","e">>
black == <<"b","l","a","c","k">>
hispanic == <<"h","i","s","p","a","n","i","c">>
others == <<"o","t","h","e","r","s">>
alive == <<"a","l","i","v","e">>
dead == <<"d","e","a","d">>
mean == <<"m","e","a","n">>
median == <<"m","e","d","i","a","n">>
sd == <<"s","d">>
male == <<"m","a","l","e">>
female == <<"f","e","m","a","l","e">>
Othr == <<"O","t","h","r">>
cmspop == <<"c","m","s","p","o","p">>
cmsclaims == <<"c","m","s","c","l","a","i","m","s">>
race == <<"r","a","c","e">>

diseases == {heart_fail, alz_rel_sen, depression, cancer}

states ==
  {
    <<"A","K">>, <<"A","L">>, <<"A","R">>, <<"A","Z">>, <<"C","A">>, <<"C","O">>,
    <<"C","T">>, <<"D","C">>, <<"D","E">>, <<"F","L">>, <<"G","A">>, <<"H","I">>,
    <<"I","A">>, <<"I","D">>, <<"I","L">>, <<"I","N">>, <<"K","S">>, <<"K","Y">>,
    <<"L","A">>, <<"M","A">>, <<"M","D">>, <<"M","E">>, <<"M","I">>, <<"M","N">>,
    <<"M","O">>, <<"M","S">>, <<"M","T">>, <<"N","C">>, <<"N","D">>, <<"N","E">>,
    <<"N","H">>, <<"N","J">>, <<"N","M">>, <<"N","V">>, <<"N","Y">>, <<"O","H">>,
    <<"O","K">>, <<"O","R">>, <<"P","A">>, <<"R","I">>, <<"S","C">>, <<"S","D">>,
    <<"T","N">>, <<"T","X">>, <<"U","T">>, <<"V","A">>, <<"V","T">>, <<"W","A">>,
    <<"W","I">>, <<"W","V">>, <<"W","Y">>, Othr
  }

races == {white, black, hispanic, others}
statuses == {alive, dead}
stats == {mean, median, sd}
sexes == {male, female}

\* ------------------------------------------------------------------------
\* Argument strings the callers are modelled to supply
\* ------------------------------------------------------------------------
WA == <<"W","A">>
wa == <<"w","a">>
W_A == <<"W",".","A">>
othr == <<"o","t","h","r">>
ZZ == <<"Z","Z">>
diabetes == <<"d","i","a","b","e","t","e","s">>
can_cer == <<"c","a","n","-","c","e","r">>
zombie == <<"z","o","m","b","i","e">>
de_ad == <<"d","e"," ","a","d">>
martian == <<"m","a","r","t","i","a","n">>
bl_ack == <<"b","l",".","a","c","k">>
fe_male == <<"f","e"," ","m","a","l","e">>
unknown == <<"u","n","k","n","o","w","n">>
mean_semi == <<"m","e","a","n",";">>
mode == <<"m","o","d","e">>
cmspop_copy == <<"c","m","s","p","o","p","_","c","o","p","y">>
no_such_table == <<"n","o","_","s","u","c","h","_","t","a","b","l","e">>
claims_bak == <<"c","l","a","i","m","s","_","b","a","k">>
sex_col == <<"s","e","x">>
race_drop == <<"r","a","c","e",";"," ","D","R","O","P"," ","T","A","B","L","E"," ","c","m","s","p","o","p">>

DiseaseInputs == {cancer, depression, can_cer, diabetes}
StateInputs == {WA, wa, W_A, Othr, othr, ZZ}
StatusInputs == {alive, dead, de_ad, zombie}
RaceInputs == {black, white, bl_ack, martian}
SexInputs == {female, male, fe_male, unknown}
StatInputs == {mean, median, sd, mean_semi, mode}
PopTableInputs == {cmspop, cmspop_copy, no_such_table}
ClaimsTableInputs == {cmsclaims, claims_bak}
CategoryInputs == {race, sex_col, race_drop}

\* ------------------------------------------------------------------------
\* re.sub('\W+', '', s) and str.upper()
\* ------------------------------------------------------------------------
LowerCase == <<"a","b","c","d","e","f","g","h","i","j","k","l","m","n","o","p","q","r","s","t","u","v","w","x","y","z">>
UpperCase == <<"A","B","C","D","E","F","G","H","I","J","K","L","M","N","O","P","Q","R","S","T","U","V","W","X","Y","Z">>
Digits == {"0","1","2","3","4","5","6","7","8","9"}

Range(s) == {s[i] : i \in DOMAIN s}

\* The characters the pattern \w matches; \W is every other character.
WordChars == Range(LowerCase) \cup Range(UpperCase) \cup Digits \cup {"_"}

re_sub_W(s) == SelectSeq(s, LAMBDA c : c \in WordChars)

UpperChar(c) ==
  IF c \in Range(LowerCase)
    THEN UpperCase[CHOOSE i \in DOMAIN LowerCase : LowerCase[i] = c]
    ELSE c

upper(s) == [i \in DOMAIN s |-> UpperChar(s[i])]

Quote(s) == <<"'">> \o s \o <<"'">>

\* The cleaning block shared by the state-scoped functions other than
\* disease_max_carrier_bene_ratio_by_state_sex.
clean_state(state) == IF state = Othr THEN Othr ELSE upper(re_sub_W(state))

\* The cleaning block of disease_max_carrier_bene_ratio_by_state_sex, which
\* quotes the state while cleaning it and leaves 'Othr' unquoted.
clean_state_quoted(state) ==
  IF state = Othr THEN Othr ELSE Quote(upper(re_sub_W(state)))

\* ------------------------------------------------------------------------
\* The database: the two relations, read through a connection
\* ------------------------------------------------------------------------
NULL == -1

\* A profile is one subject together with the subject's claim row.
MkDB(f) ==
  [cmspop |->
     {[id |-> i, sex |-> f[i].sex, state |-> f[i].state, race |-> f[i].race,
       dob |-> 0, dod |-> f[i].dod,
       heart_fail |-> f[i].heart_fail, alz_rel_sen |-> f[i].alz_rel_sen,
       depression |-> f[i].depression, cancer |-> f[i].cancer] : i \in DOMAIN f},
   cmsclaims |->
     {[id |-> i, carrier_reimb |-> f[i].carrier_reimb,
       bene_resp |-> f[i].bene_resp, hmo_mo |-> f[i].hmo_mo] : i \in DOMAIN f}]

DBs(Profiles) ==
  {MkDB(f) : f \in UNION {[1..n -> Profiles] : n \in 0..MaxSubjects}}

Profile(sx, st, rc, dd, hf, az, dp, cn, cr, br, hm) ==
  [sex |-> sx, state |-> st, race |-> rc, dod |-> dd,
   heart_fail |-> hf, alz_rel_sen |-> az, depression |-> dp, cancer |-> cn,
   carrier_reimb |-> cr, bene_resp |-> br, hmo_mo |-> hm]

\* Tables that exist in the database: the two historical tables and one
\* copy of each with identical column names.
PopTables == {cmspop, cmspop_copy}
ClaimsTables == {cmsclaims, claims_bak}

\* LHS LEFT JOIN RHS ON LHS.id = RHS.id
Join(d) ==
  {[id |-> p.id, sex |-> p.sex, state |-> p.state, race |-> p.race,
    dob |-> p.dob, dod |-> p.dod,
    heart_fail |-> p.heart_fail, alz_rel_sen |-> p.alz_rel_sen,
    depression |-> p.depression, cancer |-> p.cancer,
    carrier_reimb |-> c.carrier_reimb, bene_resp |-> c.bene_resp,
    hmo_mo |-> c.hmo_mo] : <<p, c>> \in {pc \in d.cmspop \X d.cmsclaims : pc[1].id = pc[2].id}}

\* The boolean column of a row named by a column identifier.
Flag(r, col) ==
  CASE col = heart_fail -> r.heart_fail
    [] col = alz_rel_sen -> r.alz_rel_sen
    [] col = depression -> r.depression
    [] col = cancer -> r.cancer

\* (dod - dob) / 365 on dates: integer division of the day difference.
Age(r) == (r.dod - r.dob) \div 365

\* The value of a row in a column; "age" is the computed column.
Val(r, col) == IF col = "age" THEN Age(r) ELSE r[col]

\* ------------------------------------------------------------------------
\* Arithmetic of the aggregates
\* ------------------------------------------------------------------------
RECURSIVE SumFn(_)
SumFn(f) ==
  IF DOMAIN f = {} THEN 0
  ELSE LET x == CHOOSE y \in DOMAIN f : TRUE
       IN f[x] + SumFn([y \in DOMAIN f \ {x} |-> f[y]])

\* SUM(col) over the rows S
SumOver(S, col) == SumFn([x \in S |-> Val(x, col)])

Abs(a) == IF a < 0 THEN -a ELSE a

\* ROUND / ::integer of the quotient a/b (b > 0): half away from zero.
RoundDiv(a, b) ==
  IF a >= 0 THEN (2 * a + b) \div (2 * b) ELSE -((2 * (-a) + b) \div (2 * b))

\* Every order in which a result set without ORDER BY may be returned.
Orderings(S) ==
  {f \in [1..Cardinality(S) -> S] : \A i, j \in 1..Cardinality(S) : i # j => f[i] # f[j]}

\* Orders of result rows allowed by ORDER BY <k-th output column> ASC.
OrderedBy(S, k) ==
  {f \in Orderings(S) : \A i, j \in DOMAIN f : i < j => f[i][k] <= f[j][k]}

\* ------------------------------------------------------------------------
\* Outcomes of a call
\* ------------------------------------------------------------------------
Lit(name) == [dyn |-> <<>>, lit |-> name]
Dyn(s, suffix) == [dyn |-> s, lit |-> suffix]

\* A Python dict display: a later pair with an equal key replaces an earlier one.
Dict(pairs) ==
  [k \in {pairs[i][1] : i \in DOMAIN pairs} |->
     pairs[CHOOSE i \in DOMAIN pairs :
             /\ pairs[i][1] = k
             /\ \A j \in DOMAIN pairs : pairs[j][1] = k => j <= i][2]]

NoResult == [key |-> Lit(""), records |-> <<>>]

Returned(res) ==
  [kind |-> "returned", type |-> "", wrapped |-> FALSE, dim |-> "", value |-> <<>>,
   result |-> res]

\* type is the class of the exception first raised; wrapped tells that the
\* function's except clause re-raised it as Exception("Error: ...").
\* For an AssertionError, dim and value are the word and the value of its
\* message "<dim> '<value>' is not allowed".
Raised(type, wrapped, dim, value) ==
  [kind |-> "raised", type |-> type, wrapped |-> wrapped, dim |-> dim, value |-> value,
   result |-> NoResult]

Rejected(dim, value) ==
  [outcome |-> Raised("AssertionError", TRUE, dim, value), conns |-> 0, queries |-> <<>>,
   rows |-> <<>>, shape |-> <<>>]

Query(template, args) == [template |-> template, args |-> args]

\* [error, rowsets]: a failed statement, or the possible row sequences.
Failed == [error |-> TRUE, rowsets |-> {}]
Rows(rowsets) == [error |-> FALSE, rowsets |-> rowsets]

\* ------------------------------------------------------------------------
\* What the database answers to each formatted statement
\* ------------------------------------------------------------------------
\* '...' is a string literal; anything else in its place is read as a
\* column name, and neither relation has a column named after a state.
IsLiteral(e) == Len(e) >= 2 /\ e[1] = "'" /\ e[Len(e)] = "'"
Unquote(e) == SubSeq(e, 2, Len(e) - 1)

RECURSIVE GCD(_, _)
GCD(a, b) == IF b = 0 THEN a ELSE GCD(b, a % b)

\* carrier_reimb::float / bene_resp::float, kept as a reduced fraction
Ratio(a, b) == LET g == GCD(a, b) IN [num |-> a \div g, den |-> b \div g]
RatioLess(x, y) == x.num * y.den < y.num * x.den

\* ::integer applied to the double a/b (b > 0, a >= 0): half to even
CastInteger(a, b) ==
  LET q == a \div b
      r == a % b
  IN IF 2 * r < b THEN q
     ELSE IF 2 * r > b THEN q + 1
     ELSE IF q % 2 = 0 THEN q ELSE q + 1

\* ROUND(AVG(col)::numeric, 2) over the rows S, in hundredths
RoundedAvg(S, col) == RoundDiv(100 * SumOver(S, col), Cardinality(S))

\* SELECT race, COUNT({1})::integer from {0} WHERE {1} = 't' GROUP BY {2};
sql_disease_count(d, a) ==
  LET table == a[1]
      col == a[2]
      category == a[3]
      hit == {r \in d.cmspop : Flag(r, col)}
  IN IF table \notin PopTables \/ col \notin diseases \/ category # race
       THEN Failed
       ELSE Rows(Orderings({<<g, Cardinality({r \in hit : r.race = g})>> :
                              g \in {r.race : r \in hit}}))

\* The rows of disease_max_carrier_bene_ratio_by_state_sex's statement
sql_max_carrier_bene_ratio(d, a) ==
  LET disease == a[3]
      state == a[4]
      sq1 == {r \in Join(d) : r.bene_resp > 0 /\ Flag(r, disease) /\ r.state = Unquote(state)}
      ratio(r) == Ratio(r.carrier_reimb, r.bene_resp)
      top == {r \in sq1 : \A o \in sq1 : ~RatioLess(ratio(r), ratio(o))}
  IN IF a[1] \notin PopTables \/ a[2] \notin ClaimsTables \/ disease \notin diseases
        \/ ~IsLiteral(state)
       THEN Failed
       ELSE Rows(Orderings({<<r.id, r.sex, r.state, ratio(r)>> : r \in top}))

\* The rows of carrier_reimb_avgs_select_state's statement
sql_carrier_reimb_avgs(d, a) ==
  LET state == a[3]
      sel == {r \in Join(d) : r.state = Unquote(state)}
  IN IF a[1] \notin PopTables \/ a[2] \notin ClaimsTables \/ ~IsLiteral(state)
       THEN Failed
       ELSE Rows(Orderings({<<g, RoundedAvg({r \in sel : r.state = g}, "carrier_reimb"),
                               RoundedAvg({r \in sel : r.state = g}, "bene_resp"),
                               RoundedAvg({r \in sel : r.state = g}, "hmo_mo")>> :
                              g \in {r.state : r \in sel}}))

\* The rows of avg_death_age_for_concurrent_disease_by_sex's statement
sql_avg_death_age(d, a) ==
  LET sq1 == {r \in d.cmspop : r.dod # NULL /\ Flag(r, a[2]) /\ Flag(r, a[3])}
  IN IF a[1] \notin PopTables \/ a[2] \notin diseases \/ a[3] \notin diseases
       THEN Failed
       ELSE Rows(Orderings({<<g, CastInteger(SumOver({r \in sq1 : r.sex = g}, "age"),
                                               Cardinality({r \in sq1 : r.sex = g}))>> :
                              g \in {r.sex : r \in sq1}}))

\* CASE WHEN dod IS NOT NULL THEN 'dead' WHEN dod IS NULL THEN 'alive' END
Status(r) == IF r.dod # NULL THEN dead ELSE alive

\* The rows of max_total_cost_state_status's statement
sql_max_total_cost(d, a) ==
  LET state == a[3]
      status == a[4]
      sq2 == {r \in Join(d) : r.state = Unquote(state) /\ Status(r) = status}
      total_cost(r) == r.carrier_reimb + r.bene_resp
      top == {r \in sq2 : \A o \in sq2 : total_cost(o) <= total_cost(r)}
  IN IF a[1] \notin PopTables \/ a[2] \notin ClaimsTables \/ ~IsLiteral(state)
       THEN Failed
       ELSE Rows(Orderings({<<r.id, r.state, Status(r), total_cost(r)>> : r \in top}))

\* high_and_low_carrier_reimb_state's statement without its MIN disjunct
sql_high_low_carrier_reimb_max_only(d, a) ==
  LET sel == {r \in Join(d) : r.race = Unquote(a[3])}
      total(g) == SumOver({r \in sel : r.state = g[1] /\ r.race = g[2]}, "carrier_reimb")
      groups == {<<r.state, r.race>> : r \in sel}
      keep == {g \in groups : \A o \in groups : total(o) <= total(g)}
  IN IF a[1] \notin PopTables \/ a[2] \notin ClaimsTables \/ ~IsLiteral(a[3])
       THEN Failed
       ELSE Rows(OrderedBy({<<g[1], g[2], total(g)>> : g \in keep}, 3))

\* The rows of high_and_low_carrier_reimb_state's statement
sql_high_low_carrier_reimb(d, a) ==
  LET sel == {r \in Join(d) : r.race = Unquote(a[3])}
      total(g) == SumOver({r \in sel : r.state = g[1] /\ r.race = g[2]}, "carrier_reimb")
      groups == {<<r.state, r.race>> : r \in sel}
      keep == {g \in groups : \/ \A o \in groups : total(g) <= total(o)
                              \/ \A o \in groups : total(o) <= total(g)}
  IN IF a[1] \notin PopTables \/ a[2] \notin ClaimsTables \/ ~IsLiteral(a[3])
       THEN Failed
       ELSE Rows(OrderedBy({<<g[1], g[2], total(g)>> : g \in keep}, 3))

\* hmo_mo_gt_average_for_state_disease's statement with >= for >
sql_hmo_mo_gt_average_or_equal(d, a) ==
  LET state == a[3]
      disease == a[4]
      sq1 == {r \in Join(d) : r.state = Unquote(state) /\ Flag(r, disease)}
      above == {r \in sq1 : Cardinality(sq1) * r.hmo_mo >= SumOver(sq1, "hmo_mo")}
  IN IF a[1] \notin PopTables \/ a[2] \notin ClaimsTables \/ ~IsLiteral(state)
        \/ disease \notin diseases
       THEN Failed
       ELSE Rows(Orderings({<<r.id, r.state, Flag(r, disease), r.hmo_mo>> : r \in above}))

\* The rows of hmo_mo_gt_average_for_state_disease's statement
sql_hmo_mo_gt_average(d, a) ==
  LET state == a[3]
      disease == a[4]
      sq1 == {r \in Join(d) : r.state = Unquote(state) /\ Flag(r, disease)}
      \* hmo_mo > AVG(hmo_mo), an empty AVG being NULL
      above == {r \in sq1 : Cardinality(sq1) * r.hmo_mo > SumOver(sq1, "hmo_mo")}
  IN IF a[1] \notin PopTables \/ a[2] \notin ClaimsTables \/ ~IsLiteral(state)
        \/ disease \notin diseases
       THEN Failed
       ELSE Rows(Orderings({<<r.id, r.state, Flag(r, disease), r.hmo_mo>> : r \in above}))

\* The four disease flags of a row, in the order alz_rel_sen, cancer,
\* heart_fail, depression of the healthy cohort's WHERE clause
Flags(r) == <<r.alz_rel_sen, r.cancer, r.heart_fail, r.depression>>

\* A cohort average whose subquery does not filter on the disease flags
CohortAvg_unfiltered(d, g, cohort) ==
  LET c == {r \in d.cmspop : r.dod # NULL /\ r.state = g[1] /\ r.sex = g[2]}
  IN IF c = {} THEN NULL ELSE SumOver(c, "age") \div Cardinality(c)

\* FLOOR(avg(age))::integer of one cohort (given by its four flags) of a
\* (state, sex) group, or NULL
CohortAvg(d, g, cohort) ==
  LET c == {r \in d.cmspop : r.dod # NULL /\ r.state = g[1] /\ r.sex = g[2]
                               /\ Flags(r) = cohort}
  IN IF c = {} THEN NULL ELSE SumOver(c, "age") \div Cardinality(c)

\* state_avg_life_expectancies_by_sex's statement with the leftmost cohort
\* taken over every deceased subject instead of the healthy ones
sql_life_expectancies_any_deceased(d, a) ==
  LET healthy == <<FALSE, FALSE, FALSE, FALSE>>
      alz == <<TRUE, FALSE, FALSE, FALSE>>
      hf == <<FALSE, FALSE, TRUE, FALSE>>
      dep == <<FALSE, FALSE, FALSE, TRUE>>
      can == <<FALSE, TRUE, FALSE, FALSE>>
      LHS == {<<r.state, r.sex>> : r \in {x \in d.cmspop : x.dod # NULL}}
  IN IF a[1] \notin PopTables \/ ~IsLiteral(a[2])
       THEN Failed
       ELSE Rows(Orderings({<<g[1], g[2], CohortAvg(d, g, healthy), CohortAvg(d, g, alz),
                               CohortAvg(d, g, hf), CohortAvg(d, g, dep),
                               CohortAvg(d, g, can)>> :
                              g \in {x \in LHS : x[1] = Unquote(a[2])}}))

\* The rows of state_avg_life_expectancies_by_sex's statement
sql_life_expectancies(d, a) ==
  LET healthy == <<FALSE, FALSE, FALSE, FALSE>>
      alz == <<TRUE, FALSE, FALSE, FALSE>>
      hf == <<FALSE, FALSE, TRUE, FALSE>>
      dep == <<FALSE, FALSE, FALSE, TRUE>>
      can == <<FALSE, TRUE, FALSE, FALSE>>
      LHS == {<<r.state, r.sex>> : r \in {x \in d.cmspop : x.dod # NULL /\ Flags(x) = healthy}}
  IN IF a[1] \notin PopTables \/ ~IsLiteral(a[2])
       THEN Failed
       ELSE Rows(Orderings({<<g[1], g[2], CohortAvg(d, g, healthy), CohortAvg(d, g, alz),
                               CohortAvg(d, g, hf), CohortAvg(d, g, dep),
                               CohortAvg(d, g, can)>> :
                              g \in {x \in LHS : x[1] = Unquote(a[2])}}))

\* ROUND((col of r - AVG(avgcol over M))::numeric, 2), in hundredths
Deviation(r, col, M, avgcol) ==
  RoundDiv(100 * (Cardinality(M) * Val(r, col) - SumOver(M, avgcol)), Cardinality(M))

\* claims_deviations_by_state's statement with the state filter missing
\* from the three AVG subqueries
sql_claims_deviations_overall_mean(d, a) ==
  LET sq4 == {r \in Join(d) : r.state = Unquote(a[3])}
      sq1 == Join(d)
  IN IF a[1] \notin PopTables \/ a[2] \notin ClaimsTables \/ ~IsLiteral(a[3])
       THEN Failed
       ELSE Rows(OrderedBy({<<r.id, r.state,
                               Deviation(r, "carrier_reimb", sq1, "carrier_reimb"),
                               Deviation(r, "bene_resp", sq1, "bene_resp"),
                               Deviation(r, "hmo_mo", sq1, "hmo_mo")>> : r \in sq4}, 3))

\* The rows of claims_deviations_by_state's statement
sql_claims_deviations(d, a) ==
  LET sq4 == {r \in Join(d) : r.state = Unquote(a[3])}
  IN IF a[1] \notin PopTables \/ a[2] \notin ClaimsTables \/ ~IsLiteral(a[3])
       THEN Failed
       ELSE Rows(OrderedBy({<<r.id, r.state,
                               Deviation(r, "carrier_reimb", sq4, "carrier_reimb"),
                               Deviation(r, "bene_resp", sq4, "bene_resp"),
                               Deviation(r, "hmo_mo", sq4, "hmo_mo")>> : r \in sq4}, 3))

\* ------------------------------------------------------------------------
\* The three statements of stat_select_for_sex
\* ------------------------------------------------------------------------
\* (SELECT * FROM {0} WHERE dod IS NOT NULL) AS LHS LEFT JOIN {1} ... WHERE sex = {2}
DeceasedOfSex(d, sexLit) == {r \in Join(d) : r.dod # NULL /\ r.sex = Unquote(sexLit)}

\* (SELECT * FROM {0}) AS LHS LEFT JOIN {1} ... WHERE sex = {2}
AllOfSex(d, sexLit) == {r \in Join(d) : r.sex = Unquote(sexLit)}

\* stat == 'mean'
sql_stat_mean(d, a) ==
  LET tbl1 == DeceasedOfSex(d, a[3])
  IN IF a[1] \notin PopTables \/ a[2] \notin ClaimsTables \/ ~IsLiteral(a[3])
       THEN Failed
       ELSE Rows(Orderings({<<g, SumOver({r \in tbl1 : r.sex = g}, "age")
                                   \div Cardinality({r \in tbl1 : r.sex = g}),
                               RoundedAvg({r \in tbl1 : r.sex = g}, "carrier_reimb"),
                               RoundedAvg({r \in tbl1 : r.sex = g}, "bene_resp"),
                               RoundedAvg({r \in tbl1 : r.sex = g}, "hmo_mo")>> :
                              g \in {r.sex : r \in tbl1}}))

\* InMedianWindow with ct/2 in place of ct/2.0: integer division
InMedianWindow_IntegerDivision(row_id, ct) ==
  ct \div 2 <= row_id /\ row_id <= ct \div 2 + 1

\* WHERE row_id BETWEEN ct/2.0 AND ct/2.0 + 1
InMedianWindow(row_id, ct) == ct <= 2 * row_id /\ 2 * row_id <= ct + 2

\* The rows a median CTE averages: row_number() OVER (ORDER BY col) numbers
\* the rows of S, and those inside the window are kept.  The result is
\* [sum, n] of col over the kept rows.
MedianPick(S, col) ==
  LET ranked == CHOOSE f \in Orderings(S) :
                  \A i, j \in DOMAIN f : i < j => Val(f[i], col) <= Val(f[j], col)
      ct == Cardinality(S)
      kept == {i \in 1..ct : InMedianWindow(i, ct)}
  IN [sum |-> SumFn([i \in kept |-> Val(ranked[i], col)]), n |-> Cardinality(kept)]

\* stat == 'median'
sql_stat_median(d, a) ==
  LET S == DeceasedOfSex(d, a[3])
      age == MedianPick(S, "age")
      reimb == MedianPick(S, "carrier_reimb")
      resp == MedianPick(S, "bene_resp")
      hmo == MedianPick(S, "hmo_mo")
  IN IF a[1] \notin PopTables \/ a[2] \notin ClaimsTables \/ ~IsLiteral(a[3])
       THEN Failed
       ELSE Rows(Orderings({<<g, age.sum \div age.n,
                               RoundDiv(100 * reimb.sum, reimb.n),
                               RoundDiv(100 * resp.sum, resp.n),
                               RoundDiv(100 * hmo.sum, hmo.n)>> : g \in {r.sex : r \in S}}))

\* The largest r in lo..hi with r = 0 or (2r - 1)^2 * n <= 4 * q
RECURSIVE SqrtSearch(_, _, _, _)
SqrtSearch(lo, hi, q, n) ==
  IF lo >= hi THEN lo
  ELSE LET mid == (lo + hi + 1) \div 2
       IN IF (2 * mid - 1) * (2 * mid - 1) * n <= 4 * q
            THEN SqrtSearch(mid, hi, q, n)
            ELSE SqrtSearch(lo, mid - 1, q, n)

MaxOf(S) == IF S = {} THEN 0 ELSE CHOOSE m \in S : \A x \in S : x <= m

\* ROUND(SQRT(SUM(ROUND(col - (SELECT AVG(avgcol) over M)::numeric, 2)::float ^ 2)
\*            / COUNT(sex))::numeric, 2) over the rows S, in hundredths
RoundedSd(S, col, M, avgcol) ==
  LET dev == [r \in S |-> Deviation(r, col, M, avgcol)]
      q == SumFn([r \in S |-> dev[r] * dev[r]])
  IN SqrtSearch(0, MaxOf({Abs(dev[r]) : r \in S}) + 1, q, Cardinality(S))

\* stat == 'sd'
sql_stat_sd(d, a) ==
  LET t0 == DeceasedOfSex(d, a[3])
      t123 == AllOfSex(d, a[3])
  IN IF a[1] \notin PopTables \/ a[2] \notin ClaimsTables \/ ~IsLiteral(a[3])
       THEN Failed
       ELSE Rows(Orderings({<<g, RoundedSd(t0, "age", t0, "age"),
                               RoundedSd(t123, "carrier_reimb", t123, "carrier_reimb"),
                               RoundedSd(t123, "bene_resp", t123, "bene_resp"),
                               RoundedSd(t123, "bene_resp", t123, "hmo_mo")>> :
                              g \in {r.sex : r \in t0}}))

\* cursor.execute(query); cursor.fetchall()
execute_query(d, query) ==
  CASE query.template = "disease_count_by_race" -> sql_disease_count(d, query.args)
    [] query.template = "disease_max_carrier_bene_ratio_by_state_sex" ->
         sql_max_carrier_bene_ratio(d, query.args)
    [] query.template = "carrier_reimb_avgs_select_state" ->
         sql_carrier_reimb_avgs(d, query.args)
    [] query.template = "avg_death_age_for_concurrent_disease_by_sex" ->
         sql_avg_death_age(d, query.args)
    [] query.template = "high_and_low_carrier_reimb_state" ->
         sql_high_low_carrier_reimb(d, query.args)
    [] query.template = "max_total_cost_state_status" -> sql_max_total_cost(d, query.args)
    [] query.template = "hmo_mo_gt_average_for_state_disease" ->
         sql_hmo_mo_gt_average(d, query.args)
    [] query.template = "state_avg_life_expectancies_by_sex" ->
         sql_life_expectancies(d, query.args)
    [] query.template = "claims_deviations_by_state" -> sql_claims_deviations(d, query.args)
    [] query.template = "stat_mean" -> sql_stat_mean(d, query.args)
    [] query.template = "stat_median" -> sql_stat_median(d, query.args)
    [] query.template = "stat_sd" -> sql_stat_sd(d, query.args)

\* ------------------------------------------------------------------------
\* The reporting functions.  Each <name>_run(d, ...) is the set of ways one
\* call can go: its outcome, the connections it opened (cursor_connect),
\* the statements it passed to execute_query, in order, the rows that
\* execute_query fetched, and the fields of the dict its loop built from
\* each row (pairs of a key and the index of a column).
\* ------------------------------------------------------------------------
\* for row in result: <list>.append(<dict of row>), the dict literal being
\* given by its fields: pairs of a key and the index of the row's column
Shaped(key, result, fields) ==
  [key |-> key,
   records |-> [i \in DOMAIN result |->
                  Dict([j \in DOMAIN fields |-> <<fields[j][1], result[i][fields[j][2]]>>])]]

\* cursor_connect, execute_query and the reshaping loop inside a try block
\* whose except clause re-raises as Exception("Error: ...")
Executed(d, query, key, fields) ==
  LET r == execute_query(d, query)
  IN IF r.error
       THEN {[outcome |-> Raised("DatabaseError", TRUE, "", <<>>), conns |-> 1,
              queries |-> <<query>>, rows |-> <<>>, shape |-> <<>>]}
       ELSE {[outcome |-> Returned(Shaped(key, result, fields)), conns |-> 1,
              queries |-> <<query>>, rows |-> result, shape |-> fields] :
               result \in r.rowsets}

disease_count_by_race_run(d, col, table_name, category) ==
  IF table_name = cmspop
    THEN LET cleaned_disease == re_sub_W(col)
             query == Query("disease_count_by_race", <<table_name, cleaned_disease, category>>)
             count == << <<Lit("race"), 1>>, <<Lit("count"), 2>> >>
         IN IF col \notin diseases
              THEN {Rejected("Disease", cleaned_disease)}
              ELSE Executed(d, query, Dyn(col, "_count"), count)
    ELSE LET query == Query("disease_count_by_race", <<table_name, col, category>>)
             count == << <<Dyn(category, ""), 1>>, <<Lit("count"), 2>> >>
             r == execute_query(d, query)
         IN \* no try block here; after the loop, "return counts" names an
            \* undefined variable
            IF r.error
              THEN {[outcome |-> Raised("DatabaseError", FALSE, "", <<>>), conns |-> 1,
                     queries |-> <<query>>, rows |-> <<>>, shape |-> <<>>]}
              ELSE {[outcome |-> Raised("NameError", FALSE, "", <<>>), conns |-> 1,
                     queries |-> <<query>>, rows |-> result, shape |-> count] :
                      result \in r.rowsets}

disease_max_carrier_bene_ratio_by_state_sex_run(d, disease, state, table_name1, table_name2) ==
  LET cleaned_disease == re_sub_W(disease)
      cleaned_state == clean_state_quoted(state)
      query == Query("disease_max_carrier_bene_ratio_by_state_sex",
                     <<table_name1, table_name2, cleaned_disease, cleaned_state>>)
      ratio == << <<Lit("id"), 1>>, <<Lit("sex"), 2>>,
                            <<Lit("state"), 3>>,
                            <<Lit("carrier_reimb/bene_resp ratio"), 4>> >>
  IN IF disease \notin diseases THEN {Rejected("Disease", cleaned_disease)}
     ELSE IF state \notin states THEN {Rejected("State", cleaned_state)}
     ELSE IF table_name1 # cmspop THEN {Rejected("Table", table_name1)}
     ELSE IF table_name2 # cmsclaims THEN {Rejected("Table", table_name2)}
     ELSE Executed(d, query, Lit("Max_Carrier_Resp/Bene_Resp"), ratio)

\* carrier_reimb_avgs_select_state without its check of the state
carrier_reimb_avgs_select_state_run_unchecked(d, state, table_name1, table_name2) ==
  LET cleaned_state == clean_state(state)
      query == Query("carrier_reimb_avgs_select_state",
                     <<table_name1, table_name2, Quote(cleaned_state)>>)
      freq == << <<Lit("state"), 1>>, <<Lit("avg_carrier_reimb"), 2>>,
                           <<Lit("avg_bene_resp"), 3>>, <<Lit("avg_hmo_mo"), 3>> >>
  IN IF table_name1 # cmspop THEN {Rejected("Table", table_name1)}
     ELSE IF table_name2 # cmsclaims THEN {Rejected("Table", table_name2)}
     ELSE Executed(d, query, Lit("State_Averages"), freq)

carrier_reimb_avgs_select_state_run(d, state, table_name1, table_name2) ==
  LET cleaned_state == clean_state(state)
      query == Query("carrier_reimb_avgs_select_state",
                     <<table_name1, table_name2, Quote(cleaned_state)>>)
      freq == << <<Lit("state"), 1>>, <<Lit("avg_carrier_reimb"), 2>>,
                           <<Lit("avg_bene_resp"), 3>>, <<Lit("avg_hmo_mo"), 3>> >>
  IN IF cleaned_state \notin states THEN {Rejected("State", cleaned_state)}
     ELSE IF table_name1 # cmspop THEN {Rejected("Table", table_name1)}
     ELSE IF table_name2 # cmsclaims THEN {Rejected("Table", table_name2)}
     ELSE Executed(d, query, Lit("State_Averages"), freq)

avg_death_age_for_concurrent_disease_by_sex_run(d, disease1, disease2, table_name) ==
  LET cleaned_disease1 == re_sub_W(disease1)
      cleaned_disease2 == re_sub_W(disease1)
      query == Query("avg_death_age_for_concurrent_disease_by_sex",
                     <<table_name, cleaned_disease1, cleaned_disease2>>)
      age == << <<Lit("sex"), 1>>, <<Lit("avg_age_of_death"), 2>> >>
  IN IF cleaned_disease1 \notin diseases THEN {Rejected("Disease", cleaned_disease1)}
     ELSE IF cleaned_disease2 \notin diseases THEN {Rejected("Disease", cleaned_disease2)}
     ELSE IF table_name # cmspop THEN {Rejected("Table", table_name)}
     ELSE Executed(d, query, Lit("Average_age_of_death"), age)

high_and_low_carrier_reimb_state_run(d, race_arg, table_name1, table_name2) ==
  LET cleaned_race == re_sub_W(race_arg)
      query == Query("high_and_low_carrier_reimb_state",
                     <<table_name1, table_name2, Quote(cleaned_race)>>)
      min_max == << <<Lit("state"), 1>>, <<Lit("race"), 2>>,
                              <<Lit("carrier_reimb"), 3>> >>
  IN IF cleaned_race \notin races THEN {Rejected("Race", cleaned_race)}
     ELSE IF table_name1 # cmspop THEN {Rejected("Table", table_name1)}
     ELSE IF table_name2 # cmsclaims THEN {Rejected("Table", table_name2)}
     ELSE Executed(d, query, Lit("Total_Carrier_Reimbursements"), min_max)

max_total_cost_state_status_run(d, state, status, table_name1, table_name2) ==
  LET cleaned_status == re_sub_W(status)
      cleaned_state == clean_state(state)
      query == Query("max_total_cost_state_status",
                     <<table_name1, table_name2, Quote(cleaned_state), cleaned_status>>)
      cost == << <<Lit("id"), 1>>, <<Lit("state"), 2>>,
                           <<Lit("status"), 3>>, <<Lit("total_cost"), 4>> >>
  IN IF cleaned_state \notin states THEN {Rejected("Race", cleaned_state)}
     ELSE IF cleaned_status \notin statuses THEN {Rejected("Race", cleaned_status)}
     ELSE IF table_name1 # cmspop THEN {Rejected("Table", table_name1)}
     ELSE IF table_name2 # cmsclaims THEN {Rejected("Table", table_name2)}
     ELSE Executed(d, query, Lit("Max_Total_Cost"), cost)

hmo_mo_gt_average_for_state_disease_run(d, state, disease, table_name1, table_name2) ==
  LET cleaned_state == clean_state(state)
      cleaned_disease == re_sub_W(disease)
      query == Query("hmo_mo_gt_average_for_state_disease",
                     <<table_name1, table_name2, Quote(cleaned_state), cleaned_disease>>)
      gt_avg == << <<Lit("id"), 1>>, <<Lit("state"), 2>>,
                             <<Dyn(cleaned_disease, ""), 3>>, <<Lit("hmo_mo"), 4>> >>
  IN IF cleaned_state \notin states THEN {Rejected("Race", cleaned_state)}
     ELSE IF cleaned_disease \notin diseases THEN {Rejected("Race", cleaned_disease)}
     ELSE IF table_name1 # cmspop THEN {Rejected("Table", table_name1)}
     ELSE IF table_name2 # cmsclaims THEN {Rejected("Table", table_name2)}
     ELSE Executed(d, query, Lit("Greater_Than_Average_HMO_MO"), gt_avg)

state_avg_life_expectancies_by_sex_run(d, state, table_name) ==
  LET cleaned_state == clean_state(state)
      query == Query("state_avg_life_expectancies_by_sex", <<table_name, Quote(cleaned_state)>>)
      expect == << <<Lit("state"), 1>>, <<Lit("sex"), 2>>,
                             <<Lit("avg healthy life expectancy"), 3>>,
                             <<Lit("avg alzheimers life expectancy"), 4>>,
                             <<Lit("avg heart failure life expectancy"), 5>>,
                             <<Lit("avg depression life expectancy"), 6>>,
                             <<Lit("avg cancer life expectancy"), 7>> >>
  IN IF cleaned_state \notin states THEN {Rejected("State", cleaned_state)}
     ELSE IF table_name # cmspop
       \* the message is formatted from table_name1, which this function
       \* does not define
       THEN {[outcome |-> Raised("NameError", TRUE, "", <<>>), conns |-> 0, queries |-> <<>>,
              rows |-> <<>>, shape |-> <<>>]}
     ELSE Executed(d, query, Lit("Life_Expectancies"), expect)

claims_deviations_by_state_run(d, state, table_name1, table_name2) ==
  LET cleaned_state == clean_state(state)
      query == Query("claims_deviations_by_state",
                     <<table_name1, table_name2, Quote(cleaned_state)>>)
      patient == << <<Lit("id"), 1>>, <<Lit("state"), 2>>,
                              <<Lit("carrier_reimb deviation"), 3>>,
                              <<Lit("bene_resp deviation"), 4>>,
                              <<Lit("homo_mo deviation"), 5>> >>
  IN IF cleaned_state \notin states THEN {Rejected("Race", cleaned_state)}
     ELSE IF table_name1 # cmspop THEN {Rejected("Table", table_name1)}
     ELSE Executed(d, query, Lit("deviations"), patient)

stat_select_for_sex_run(d, stat, sex, table_name1, table_name2) ==
  LET cleaned_stat == re_sub_W(stat)
      cleaned_sex == re_sub_W(sex)
      args == <<table_name1, table_name2, Quote(cleaned_sex)>>
      query == IF stat = mean THEN Query("stat_mean", args)
               ELSE IF stat = median THEN Query("stat_median", args)
               ELSE Query("stat_sd", args)
      statistic ==
        IF stat = mean
          THEN << <<Lit("sex"), 1>>, <<Lit("age"), 2>>,
                       <<Lit("mean_carrier_reimb"), 3>>, <<Lit("mean_bene_resp"), 4>>,
                       <<Lit("mean_homo_mo devations"), 5>> >>
        ELSE IF stat = median
          THEN << <<Lit("sex"), 1>>, <<Lit("age"), 2>>,
                       <<Lit("median_carrier_reimb"), 3>>,
                       <<Lit("median_bene_resp"), 4>>,
                       <<Lit("median_homo_mo devations"), 5>> >>
          ELSE << <<Lit("sex"), 1>>, <<Lit("age"), 2>>,
                       <<Lit("carrier_reimb_sd"), 3>>, <<Lit("bene_resp_sd"), 4>>,
                       <<Lit("homo_mo_sd"), 5>> >>
  IN IF cleaned_stat \notin stats THEN {Rejected("Statistic", cleaned_stat)}
     ELSE IF cleaned_sex \notin sexes THEN {Rejected("Sex", cleaned_sex)}
     ELSE IF table_name1 # cmspop THEN {Rejected("Table", table_name1)}
     ELSE IF table_name2 # cmsclaims THEN {Rejected("Table", table_name2)}
     ELSE IF stat \notin {mean, median, sd}
       \* none of the three "if stat == ..." blocks assigned query
       THEN {[outcome |-> Raised("UnboundLocalError", TRUE, "", <<>>), conns |-> 1,
              queries |-> <<>>, rows |-> <<>>, shape |-> <<>>]}
     ELSE Executed(d, query, Lit("statistic"), statistic)

\* ------------------------------------------------------------------------
\* Actions: one call of one function against the current database
\* ------------------------------------------------------------------------
Finish(metric, args, t) ==
  /\ call' = [metric |-> metric, args |-> args]
  /\ outcome' = t.outcome
  /\ conns' = t.conns
  /\ queries' = t.queries
  /\ rows' = t.rows
  /\ shape' = t.shape
  /\ UNCHANGED db

disease_count_by_race(col, table_name, category) ==
  \E t \in disease_count_by_race_run(db, col, table_name, category) :
    Finish("disease_count_by_race",
           [col |-> col, table_name |-> table_name, category |-> category], t)

disease_max_carrier_bene_ratio_by_state_sex(disease, state, table_name1, table_name2) ==
  \E t \in disease_max_carrier_bene_ratio_by_state_sex_run(db, disease, state,
                                                          table_name1, table_name2) :
    Finish("disease_max_carrier_bene_ratio_by_state_sex",
           [disease |-> disease, state |-> state, table_name1 |-> table_name1,
            table_name2 |-> table_name2], t)

carrier_reimb_avgs_select_state(state, table_name1, table_name2) ==
  \E t \in carrier_reimb_avgs_select_state_run(db, state, table_name1, table_name2) :
    Finish("carrier_reimb_avgs_select_state",
           [state |-> state, table_name1 |-> table_name1, table_name2 |-> table_name2], t)

avg_death_age_for_concurrent_disease_by_sex(disease1, disease2, table_name) ==
  \E t \in avg_death_age_for_concurrent_disease_by_sex_run(db, disease1, disease2, table_name) :
    Finish("avg_death_age_for_concurrent_disease_by_sex",
           [disease1 |-> disease1, disease2 |-> disease2, table_name |-> table_name], t)

high_and_low_carrier_reimb_state(race_arg, table_name1, table_name2) ==
  \E t \in high_and_low_carrier_reimb_state_run(db, race_arg, table_name1, table_name2) :
    Finish("high_and_low_carrier_reimb_state",
           [race |-> race_arg, table_name1 |-> table_name1, table_name2 |-> table_name2], t)

max_total_cost_state_status(state, status, table_name1, table_name2) ==
  \E t \in max_total_cost_state_status_run(db, state, status, table_name1, table_name2) :
    Finish("max_total_cost_state_status",
           [state |-> state, status |-> status, table_name1 |-> table_name1,
            table_name2 |-> table_name2], t)

hmo_mo_gt_average_for_state_disease(state, disease, table_name1, table_name2) ==
  \E t \in hmo_mo_gt_average_for_state_disease_run(db, state, disease,
                                                  table_name1, table_name2) :
    Finish("hmo_mo_gt_average_for_state_disease",
           [state |-> state, disease |-> disease, table_name1 |-> table_name1,
            table_name2 |-> table_name2], t)

state_avg_life_expectancies_by_sex(state, table_name) ==
  \E t \in state_avg_life_expectancies_by_sex_run(db, state, table_name) :
    Finish("state_avg_life_expectancies_by_sex",
           [state |-> state, table_name |-> table_name], t)

claims_deviations_by_state(state, table_name1, table_name2) ==
  \E t \in claims_deviations_by_state_run(db, state, table_name1, table_name2) :
    Finish("claims_deviations_by_state",
           [state |-> state, table_name1 |-> table_name1, table_name2 |-> table_name2], t)

stat_select_for_sex(stat, sex, table_name1, table_name2) ==
  \E t \in stat_select_for_sex_run(db, stat, sex, table_name1, table_name2) :
    Finish("stat_select_for_sex",
           [stat |-> stat, sex |-> sex, table_name1 |-> table_name1,
            table_name2 |-> table_name2], t)

\* ------------------------------------------------------------------------
\* Specifications
\* ------------------------------------------------------------------------
\* Before the first call
Idle ==
  /\ call = [metric |-> "none", args |-> <<>>]
  /\ outcome = [kind |-> "none", type |-> "", wrapped |-> FALSE, dim |-> "", value |-> <<>>,
                result |-> NoResult]
  /\ conns = 0
  /\ queries = <<>>
  /\ rows = <<>>
  /\ shape = <<>>

\* Spec: every function, called with allowed and disallowed arguments,
\* against small databases.
\* The databases hold the first n subjects of a fixed population.
BaseProfile(i) ==
  IF i % 2 = 1
    THEN Profile(female, WA, black, 7300, FALSE, FALSE, FALSE, TRUE, 40, 10, 6)
    ELSE Profile(male, Othr, white, NULL, FALSE, FALSE, TRUE, FALSE, 20, 5, 12)

Init == db \in {MkDB([i \in 1..n |-> BaseProfile(i)]) : n \in 0..MaxSubjects} /\ Idle

Next ==
  \/ \E col \in DiseaseInputs, table_name \in PopTableInputs, category \in CategoryInputs :
       disease_count_by_race(col, table_name, category)
  \/ \E disease \in DiseaseInputs, state \in StateInputs,
        table_name1 \in PopTableInputs, table_name2 \in ClaimsTableInputs :
       disease_max_carrier_bene_ratio_by_state_sex(disease, state, table_name1, table_name2)
  \/ \E state \in StateInputs, table_name1 \in PopTableInputs,
        table_name2 \in ClaimsTableInputs :
       carrier_reimb_avgs_select_state(state, table_name1, table_name2)
  \/ \E disease1 \in DiseaseInputs, disease2 \in DiseaseInputs, table_name \in PopTableInputs :
       avg_death_age_for_concurrent_disease_by_sex(disease1, disease2, table_name)
  \/ \E race_arg \in RaceInputs, table_name1 \in PopTableInputs,
        table_name2 \in ClaimsTableInputs :
       high_and_low_carrier_reimb_state(race_arg, table_name1, table_name2)
  \/ \E state \in StateInputs, status \in StatusInputs,
        table_name1 \in PopTableInputs, table_name2 \in ClaimsTableInputs :
       max_total_cost_state_status(state, status, table_name1, table_name2)
  \/ \E state \in StateInputs, disease \in DiseaseInputs,
        table_name1 \in PopTableInputs, table_name2 \in ClaimsTableInputs :
       hmo_mo_gt_average_for_state_disease(state, disease, table_name1, table_name2)
  \/ \E state \in StateInputs, table_name \in PopTableInputs :
       state_avg_life_expectancies_by_sex(state, table_name)
  \/ \E state \in StateInputs, table_name1 \in PopTableInputs,
        table_name2 \in ClaimsTableInputs :
       claims_deviations_by_state(state, table_name1, table_name2)
  \/ \E stat \in StatInputs, sex \in SexInputs,
        table_name1 \in PopTableInputs, table_name2 \in ClaimsTableInputs :
       stat_select_for_sex(stat, sex, table_name1, table_name2)

Spec == Init /\ [][Next]_vars

\* SpecConcurrent: avg_death_age_for_concurrent_disease_by_sex with allowed
\* arguments, against every database of up to MaxSubjects subjects who
\* differ in sex, death date and two disease flags.
ConcurrentProfiles ==
  {Profile(sx, WA, white, dd, FALSE, FALSE, dp, cn, 10, 5, 6) :
     sx \in sexes, dd \in {NULL, 7300, 11315}, dp \in BOOLEAN, cn \in BOOLEAN}

InitConcurrent == db \in DBs(ConcurrentProfiles) /\ Idle

NextConcurrent ==
  \E disease1 \in {cancer, depression}, disease2 \in {cancer, depression} :
    avg_death_age_for_concurrent_disease_by_sex(disease1, disease2, cmspop)

SpecConcurrent == InitConcurrent /\ [][NextConcurrent]_vars

\* SpecAvgs: carrier_reimb_avgs_select_state with allowed arguments, against
\* databases whose subjects differ in state and in the three claim columns.
AvgsProfiles ==
  {Profile(female, st, white, NULL, FALSE, FALSE, FALSE, FALSE, cr, br, hm) :
     st \in {WA, Othr}, cr \in {10, 40}, br \in {0, 10}, hm \in {6, 12}}

InitAvgs == db \in DBs(AvgsProfiles) /\ Idle

NextAvgs == \E state \in {WA, Othr} : carrier_reimb_avgs_select_state(state, cmspop, cmsclaims)

SpecAvgs == InitAvgs /\ [][NextAvgs]_vars

\* SpecStat: stat_select_for_sex with allowed arguments, against databases
\* whose subjects differ in sex, death date and claim amounts.
StatProfiles ==
  {Profile(sx, WA, white, dd, FALSE, FALSE, FALSE, FALSE, m[1], m[2], m[3]) :
     sx \in sexes, dd \in {NULL, 3650, 7700}, m \in {<<10, 0, 6>>, <<40, 11, 12>>}}

InitStat == db \in DBs(StatProfiles) /\ Idle

NextStat == \E stat \in stats, sex \in sexes : stat_select_for_sex(stat, sex, cmspop, cmsclaims)

SpecStat == InitStat /\ [][NextStat]_vars

\* SpecMax: the two maximum functions with allowed arguments, against
\* databases in which ratios and total costs can tie.
MaxProfiles ==
  {Profile(female, st, white, dd, FALSE, FALSE, FALSE, cn, m[1], m[2], 6) :
     st \in {WA, Othr}, dd \in {NULL, 7300}, cn \in BOOLEAN,
     m \in {<<10, 5>>, <<20, 10>>, <<20, 0>>, <<10, 10>>}}

InitMax == db \in DBs(MaxProfiles) /\ Idle

NextMax ==
  \/ \E state \in {WA, Othr} :
       disease_max_carrier_bene_ratio_by_state_sex(cancer, state, cmspop, cmsclaims)
  \/ \E state \in {WA, Othr}, status \in statuses :
       max_total_cost_state_status(state, status, cmspop, cmsclaims)

SpecMax == InitMax /\ [][NextMax]_vars

\* SpecHighLow: high_and_low_carrier_reimb_state with allowed arguments,
\* against databases whose subjects differ in state, race and reimbursement,
\* so that state totals can tie at either end or lie strictly between.
CA == <<"C","A">>

HighLowProfiles ==
  {Profile(female, st, rc, NULL, FALSE, FALSE, FALSE, FALSE, cr, 5, 6) :
     st \in {WA, CA, Othr}, rc \in {black, white}, cr \in {5, 20, 50}}

InitHighLow == db \in DBs(HighLowProfiles) /\ Idle

NextHighLow ==
  \E race_arg \in {black, white} : high_and_low_carrier_reimb_state(race_arg, cmspop, cmsclaims)

SpecHighLow == InitHighLow /\ [][NextHighLow]_vars

\* SpecHmo: hmo_mo_gt_average_for_state_disease with allowed arguments,
\* against databases whose subjects differ in state, in which of two
\* diseases they have and in months enrolled.
HmoProfiles ==
  {Profile(female, st, white, NULL, FALSE, FALSE, ~cn, cn, 10, 5, hm) :
     st \in {WA, Othr}, cn \in BOOLEAN, hm \in {3, 6, 12}}

InitHmo == db \in DBs(HmoProfiles) /\ Idle

NextHmo ==
  \E state \in {WA, Othr}, disease \in {cancer, depression} :
    hmo_mo_gt_average_for_state_disease(state, disease, cmspop, cmsclaims)

SpecHmo == InitHmo /\ [][NextHmo]_vars

\* SpecLife: state_avg_life_expectancies_by_sex with allowed arguments,
\* against databases whose subjects differ in sex, state, death date and in
\* having cancer or no disease.
LifeProfiles ==
  {Profile(sx, st, white, dd, FALSE, FALSE, FALSE, cn, 10, 5, 6) :
     sx \in sexes, st \in {WA, Othr}, dd \in {NULL, 7300, 11315}, cn \in BOOLEAN}

InitLife == db \in DBs(LifeProfiles) /\ Idle

NextLife == \E state \in {WA, Othr} : state_avg_life_expectancies_by_sex(state, cmspop)

SpecLife == InitLife /\ [][NextLife]_vars

\* SpecDev: claims_deviations_by_state with allowed arguments, against
\* databases whose subjects differ in state and claim amounts, so that a
\* statewide mean need not be a whole number of hundredths.
DevProfiles ==
  {Profile(female, st, white, NULL, FALSE, FALSE, FALSE, FALSE, cr, m[1], m[2]) :
     st \in {WA, Othr}, cr \in {10, 20}, m \in {<<0, 6>>, <<5, 12>>}}

InitDev == db \in DBs(DevProfiles) /\ Idle

NextDev == \E state \in {WA, Othr} : claims_deviations_by_state(state, cmspop, cmsclaims)

SpecDev == InitDev /\ [][NextDev]_vars

\* ------------------------------------------------------------------------
\* Properties
\* ------------------------------------------------------------------------
Called(metric) == call.metric = metric
Returns == outcome.kind = "returned"
InvalidInput == outcome.kind = "raised" /\ outcome.type = "AssertionError"
Records == Range(outcome.result.records)

HasArg(name) == call.metric # "none" /\ name \in DOMAIN call.args

StateScoped ==
  {"disease_max_carrier_bene_ratio_by_state_sex", "carrier_reimb_avgs_select_state",
   "max_total_cost_state_status", "hmo_mo_gt_average_for_state_disease",
   "state_avg_life_expectancies_by_sex", "claims_deviations_by_state"}

\* C1: disease_count_by_race called with a disease outside the four allowed
\* names fails with an invalid-input error and executes no query, whatever
\* the other arguments are.
C1_NoQueryForUnknownDisease ==
  (Called("disease_count_by_race") /\ call.args.col \notin diseases)
    => (InvalidInput /\ queries = <<>>)

\* C2: a call in which a table-name argument differs from its allowed name
\* fails with an invalid-input error before a connection is opened or a
\* query executed.
C2_TableNamesValidated ==
  (\/ HasArg("table_name") /\ call.args.table_name # cmspop
   \/ HasArg("table_name1") /\ call.args.table_name1 # cmspop
   \/ HasArg("table_name2") /\ call.args.table_name2 # cmsclaims)
    => (InvalidInput /\ conns = 0 /\ queries = <<>>)

\* The value a state expression of a statement stands for
StateValue(e) == IF IsLiteral(e) THEN Unquote(e) ELSE e

InAllowLists(q) ==
  LET a == q.args
  IN CASE q.template = "disease_count_by_race" ->
            a[1] = cmspop /\ a[2] \in diseases /\ a[3] = race
       [] q.template = "disease_max_carrier_bene_ratio_by_state_sex" ->
            a[1] = cmspop /\ a[2] = cmsclaims /\ a[3] \in diseases /\ StateValue(a[4]) \in states
       [] q.template = "avg_death_age_for_concurrent_disease_by_sex" ->
            a[1] = cmspop /\ a[2] \in diseases /\ a[3] \in diseases
       [] q.template = "high_and_low_carrier_reimb_state" ->
            a[1] = cmspop /\ a[2] = cmsclaims /\ StateValue(a[3]) \in races
       [] q.template = "max_total_cost_state_status" ->
            a[1] = cmspop /\ a[2] = cmsclaims /\ StateValue(a[3]) \in states
              /\ a[4] \in statuses
       [] q.template = "hmo_mo_gt_average_for_state_disease" ->
            a[1] = cmspop /\ a[2] = cmsclaims /\ StateValue(a[3]) \in states
              /\ a[4] \in diseases
       [] q.template = "state_avg_life_expectancies_by_sex" ->
            a[1] = cmspop /\ StateValue(a[2]) \in states
       [] q.template \in {"carrier_reimb_avgs_select_state", "claims_deviations_by_state"} ->
            a[1] = cmspop /\ a[2] = cmsclaims /\ StateValue(a[3]) \in states
       [] q.template \in {"stat_mean", "stat_median", "stat_sd"} ->
            a[1] = cmspop /\ a[2] = cmsclaims /\ StateValue(a[3]) \in sexes

\* C3: no statement is executed that contains a caller-supplied value
\* outside its allow-list (for the grouping column of
\* disease_count_by_race: the column race).
C3_OnlyAllowedValuesInQueries == \A i \in DOMAIN queries : InAllowLists(queries[i])

\* C4 as stated: a state argument that is not itself an element of the
\* state enumeration makes every state-scoped function fail with an
\* invalid-input error.
C4_RawStateRejected ==
  (call.metric \in StateScoped /\ call.args.state \notin states) => InvalidInput

\* Non-word characters removed and letters upper-cased, 'Othr' kept as is
NormalizedState(s) ==
  IF s = Othr THEN s
  ELSE LET w == SelectSeq(s, LAMBDA c : c \in WordChars)
       IN [i \in DOMAIN w |-> UpperChar(w[i])]

\* C4 (amended): a state argument whose cleaned form (non-word characters
\* removed, upper-cased; 'Othr' kept as is) is not an element of the state
\* enumeration makes every state-scoped function fail with an invalid-input
\* error.
C4_UnknownStateRejected ==
  (call.metric \in StateScoped /\ NormalizedState(call.args.state) \notin states)
    => InvalidInput

\* C4 witness: carrier_reimb_avgs_select_state has rejected 'othr', whose
\* cleaned form 'OTHR' it reports.
C4_Witness ==
  /\ Called("carrier_reimb_avgs_select_state")
  /\ call.args.state = othr
  /\ InvalidInput
  /\ outcome.value = <<"O","T","H","R">>

\* The deceased subjects who have both diseases
BothDiseases(disease1, disease2) ==
  {r \in db.cmspop : r.dod # NULL /\ Flag(r, disease1) /\ Flag(r, disease2)}

\* C5: avg_death_age_for_concurrent_disease_by_sex(disease1, disease2)
\* averages exactly the deceased subjects whose disease1 and disease2 flags
\* are both true: one record per sex among them, with their average age.
C5_BothDiseasesAveraged ==
  (Called("avg_death_age_for_concurrent_disease_by_sex") /\ Returns) =>
    LET pop == BothDiseases(call.args.disease1, call.args.disease2)
    IN {<<rec[Lit("sex")], rec[Lit("avg_age_of_death")]>> : rec \in Records}
         = {<<g, CastInteger(SumOver({r \in pop : r.sex = g}, "age"),
                             Cardinality({r \in pop : r.sex = g}))>> : g \in {r.sex : r \in pop}}

\* C6: avg_death_age_for_concurrent_disease_by_sex called with an allowed
\* disease1 and a disease2 outside the allow-list fails with an
\* invalid-input error and opens no connection.
C6_SecondDiseaseValidated ==
  (/\ Called("avg_death_age_for_concurrent_disease_by_sex")
   /\ call.args.disease1 \in diseases
   /\ call.args.disease2 \notin diseases)
    => (InvalidInput /\ conns = 0)

\* C7: in every record carrier_reimb_avgs_select_state returns, the fields
\* avg_carrier_reimb, avg_bene_resp and avg_hmo_mo are the means of
\* carrier_reimb, bene_resp and hmo_mo over the joined rows of the state.
C7_EachAverageOfItsColumn ==
  (Called("carrier_reimb_avgs_select_state") /\ Returns) =>
    \A rec \in Records :
      LET sel == {r \in Join(db) : r.state = rec[Lit("state")]}
      IN /\ rec[Lit("avg_carrier_reimb")] = RoundedAvg(sel, "carrier_reimb")
         /\ rec[Lit("avg_bene_resp")] = RoundedAvg(sel, "bene_resp")
         /\ rec[Lit("avg_hmo_mo")] = RoundedAvg(sel, "hmo_mo")

\* The k-th smallest value of a column over the rows S
KthSmallest(S, col, k) ==
  CHOOSE v \in {Val(r, col) : r \in S} :
    /\ Cardinality({r \in S : Val(r, col) < v}) < k
    /\ Cardinality({r \in S : Val(r, col) <= v}) >= k

\* Twice the median of a column over the rows S: twice the middle value
\* when the number of rows is odd, the sum of the two middle values when it
\* is even
TwiceMedian(S, col) ==
  LET n == Cardinality(S)
  IN IF n % 2 = 1 THEN 2 * KthSmallest(S, col, (n + 1) \div 2)
     ELSE KthSmallest(S, col, n \div 2) + KthSmallest(S, col, n \div 2 + 1)

\* The joined rows of the deceased subjects of the sex of the call
StatPopulation == {r \in Join(db) : r.dod # NULL /\ r.sex = call.args.sex}

\* The keys of the four values, by statistic
StatKeys(stat) ==
  IF stat = mean
    THEN <<"age", "mean_carrier_reimb", "mean_bene_resp", "mean_homo_mo devations">>
  ELSE IF stat = median
    THEN <<"age", "median_carrier_reimb", "median_bene_resp", "median_homo_mo devations">>
    ELSE <<"age", "carrier_reimb_sd", "bene_resp_sd", "homo_mo_sd">>

\* The statistic of one column over the rows S as the statements report
\* it: the age mean and median in whole years, all else in hundredths
StatOfAge(stat, S) ==
  IF stat = mean THEN SumOver(S, "age") \div Cardinality(S)
  ELSE IF stat = median THEN TwiceMedian(S, "age") \div 2
  ELSE RoundedSd(S, "age", S, "age")

StatOfColumn(stat, S, col) ==
  IF stat = mean THEN RoundedAvg(S, col)
  ELSE IF stat = median THEN RoundDiv(100 * TwiceMedian(S, col), 2)
  ELSE RoundedSd(S, col, S, col)

\* C8: each of the four values stat_select_for_sex reports is the chosen
\* statistic of its own column (age at death, carrier_reimb, bene_resp,
\* hmo_mo), all four over the joined rows of the deceased subjects of the
\* given sex.
C8_EachStatisticOfItsColumn ==
  (Called("stat_select_for_sex") /\ Returns) =>
    \A rec \in Records :
      LET stat == call.args.stat
          k == StatKeys(stat)
      IN /\ rec[Lit(k[1])] = StatOfAge(stat, StatPopulation)
         /\ rec[Lit(k[2])] = StatOfColumn(stat, StatPopulation, "carrier_reimb")
         /\ rec[Lit(k[3])] = StatOfColumn(stat, StatPopulation, "bene_resp")
         /\ rec[Lit(k[4])] = StatOfColumn(stat, StatPopulation, "hmo_mo")

MedianReported ==
  /\ Called("stat_select_for_sex")
  /\ call.args.stat = median
  /\ Returns
  /\ StatPopulation # {}

\* C9 as stated: for n >= 1 qualifying rows the reported median of every
\* column is the middle value (n odd) or the average of the two middle
\* values (n even).
C9_MedianExact ==
  MedianReported =>
    /\ Cardinality(Records) = 1
    /\ \A rec \in Records :
         /\ 2 * rec[Lit("age")] = TwiceMedian(StatPopulation, "age")
         /\ 2 * rec[Lit("median_carrier_reimb")] = 100 * TwiceMedian(StatPopulation, "carrier_reimb")
         /\ 2 * rec[Lit("median_bene_resp")] = 100 * TwiceMedian(StatPopulation, "bene_resp")
         /\ 2 * rec[Lit("median_homo_mo devations")] = 100 * TwiceMedian(StatPopulation, "hmo_mo")

\* C9 (amended): for n >= 1 qualifying rows the reported median is the
\* middle value (n odd) or the average of the two middle values (n even),
\* rounded down to a whole number of years for the age and rounded to two
\* decimals for carrier_reimb, bene_resp and hmo_mo.
C9_MedianRounded ==
  MedianReported =>
    /\ Cardinality(Records) = 1
    /\ \A rec \in Records :
         /\ rec[Lit("age")] = TwiceMedian(StatPopulation, "age") \div 2
         /\ rec[Lit("median_carrier_reimb")] = RoundDiv(100 * TwiceMedian(StatPopulation, "carrier_reimb"), 2)
         /\ rec[Lit("median_bene_resp")] = RoundDiv(100 * TwiceMedian(StatPopulation, "bene_resp"), 2)
         /\ rec[Lit("median_homo_mo devations")] = RoundDiv(100 * TwiceMedian(StatPopulation, "hmo_mo"), 2)

\* C9 witness: a median over two rows whose ages, 10 and 21, average to
\* 15.5, reported as 15.
C9_Witness ==
  /\ MedianReported
  /\ {Age(r) : r \in StatPopulation} = {10, 21}
  /\ Cardinality(StatPopulation) = 2
  /\ \E rec \in Records : rec[Lit("age")] = 15

\* The ids of the records returned
ReturnedIds == {rec[Lit("id")] : rec \in Records}

\* The rows with the greatest carrier_reimb / bene_resp among the subjects
\* of the state who have the disease and a positive bene_resp
MaxRatioRows(state, disease) ==
  LET pop == {r \in Join(db) : r.state = state /\ Flag(r, disease) /\ r.bene_resp > 0}
  IN {r \in pop : \A o \in pop : r.carrier_reimb * o.bene_resp >= o.carrier_reimb * r.bene_resp}

\* The rows with the greatest carrier_reimb + bene_resp among the subjects
\* of the state with the status
MaxCostRows(state, status) ==
  LET pop == {r \in Join(db) : r.state = state /\ (r.dod = NULL <=> status = alive)}
  IN {r \in pop : \A o \in pop : r.carrier_reimb + r.bene_resp >= o.carrier_reimb + o.bene_resp}

\* C10: the maximum functions return all ties and nothing else:
\* disease_max_carrier_bene_ratio_by_state_sex returns exactly the ids whose
\* ratio is the maximum for the state and disease, and
\* max_total_cost_state_status exactly the rows whose total cost is the
\* maximum for the state and status.
C10_AllTiesReturned ==
  /\ Called("disease_max_carrier_bene_ratio_by_state_sex") =>
       /\ Returns
       /\ ReturnedIds = {r.id : r \in MaxRatioRows(call.args.state, call.args.disease)}
       /\ Len(outcome.result.records) = Cardinality(ReturnedIds)
  /\ Called("max_total_cost_state_status") =>
       /\ Returns
       /\ ReturnedIds = {r.id : r \in MaxCostRows(call.args.state, call.args.status)}
       /\ Len(outcome.result.records) = Cardinality(ReturnedIds)

\* The joined rows of the subjects of the race a call names
RaceRows == {r \in Join(db) : r.race = re_sub_W(call.args.race)}
StateTotal(st) == SumOver({r \in RaceRows : r.state = st}, "carrier_reimb")
RaceStates == {r.state : r \in RaceRows}
ExtremeStates ==
  {st \in RaceStates : \/ \A o \in RaceStates : StateTotal(st) <= StateTotal(o)
                       \/ \A o \in RaceStates : StateTotal(o) <= StateTotal(st)}

\* C11: high_and_low_carrier_reimb_state(race) returns one record for each
\* state whose total reimbursement over the subjects of that race equals the
\* minimum or the maximum total, every tied state included and no other
\* state, each record carrying that total, in ascending order of total.
C11_MinAndMaxStatesReturned ==
  (Called("high_and_low_carrier_reimb_state") /\ Returns) =>
    LET recs == outcome.result.records
    IN /\ {recs[i][Lit("state")] : i \in DOMAIN recs} = ExtremeStates
       /\ Len(recs) = Cardinality(ExtremeStates)
       /\ \A i \in DOMAIN recs :
            /\ recs[i][Lit("race")] = re_sub_W(call.args.race)
            /\ recs[i][Lit("carrier_reimb")] = StateTotal(recs[i][Lit("state")])
       /\ \A i, j \in DOMAIN recs :
            i < j => recs[i][Lit("carrier_reimb")] <= recs[j][Lit("carrier_reimb")]

\* Two states tied at the minimum are returned ahead of the one at the
\* maximum.
C11_Witness ==
  /\ Called("high_and_low_carrier_reimb_state") /\ Returns
  /\ LET recs == outcome.result.records
     IN /\ Len(recs) = 3
        /\ recs[1][Lit("carrier_reimb")] = recs[2][Lit("carrier_reimb")]
        /\ recs[2][Lit("carrier_reimb")] < recs[3][Lit("carrier_reimb")]

\* The joined rows of the subjects in the state a call names who have the
\* disease it names
DiseasedInState ==
  {r \in Join(db) : /\ r.state = clean_state(call.args.state)
                    /\ Flag(r, re_sub_W(call.args.disease))}
AboveMeanHmo ==
  {r \in DiseasedInState :
     Cardinality(DiseasedInState) * r.hmo_mo > SumOver(DiseasedInState, "hmo_mo")}

\* C12: hmo_mo_gt_average_for_state_disease(state, disease) returns exactly
\* one record for each joined row of a subject in the state with the disease
\* whose months enrolled are strictly greater than the mean months enrolled
\* of that same population; a row at or below the mean is never returned.
C12_StrictlyAboveMeanReturned ==
  (Called("hmo_mo_gt_average_for_state_disease") /\ Returns) =>
    LET recs == outcome.result.records
    IN /\ {recs[i][Lit("id")] : i \in DOMAIN recs} = {r.id : r \in AboveMeanHmo}
       /\ Len(recs) = Cardinality(AboveMeanHmo)
       /\ \A i \in DOMAIN recs : \E r \in AboveMeanHmo :
            /\ recs[i][Lit("id")] = r.id
            /\ recs[i][Lit("state")] = r.state
            /\ recs[i][Dyn(re_sub_W(call.args.disease), "")] = TRUE
            /\ recs[i][Lit("hmo_mo")] = r.hmo_mo

\* Some subjects of the population are returned and others, at or below the
\* mean, are not.
C12_Witness ==
  /\ Called("hmo_mo_gt_average_for_state_disease") /\ Returns
  /\ outcome.result.records # <<>>
  /\ Len(outcome.result.records) < Cardinality(DiseasedInState)

\* The deceased subjects of the state a call names
DeceasedInState ==
  {r \in db.cmspop : r.state = clean_state(call.args.state) /\ r.dod # NULL}
AllHealthy == \A r \in DeceasedInState : Flags(r) = <<FALSE, FALSE, FALSE, FALSE>>

\* C13: when every deceased subject of the state has all four disease flags
\* false, state_avg_life_expectancies_by_sex returns one record per sex
\* present among them, each with the healthy average populated (the floor of
\* the mean age at death of that sex) and the four single-disease averages
\* null.
C13_HealthyOnlyState ==
  (Called("state_avg_life_expectancies_by_sex") /\ Returns /\ AllHealthy) =>
    LET recs == outcome.result.records
    IN /\ {recs[i][Lit("sex")] : i \in DOMAIN recs} = {r.sex : r \in DeceasedInState}
       /\ Len(recs) = Cardinality({r.sex : r \in DeceasedInState})
       /\ \A i \in DOMAIN recs :
            LET c == {r \in DeceasedInState : r.sex = recs[i][Lit("sex")]}
            IN /\ recs[i][Lit("state")] = clean_state(call.args.state)
               /\ recs[i][Lit("avg healthy life expectancy")] # NULL
               /\ recs[i][Lit("avg healthy life expectancy")]
                    = SumOver(c, "age") \div Cardinality(c)
               /\ recs[i][Lit("avg alzheimers life expectancy")] = NULL
               /\ recs[i][Lit("avg heart failure life expectancy")] = NULL
               /\ recs[i][Lit("avg depression life expectancy")] = NULL
               /\ recs[i][Lit("avg cancer life expectancy")] = NULL

\* Both sexes have deceased subjects in the state, all of them healthy.
C13_Witness ==
  /\ Called("state_avg_life_expectancies_by_sex") /\ Returns /\ AllHealthy
  /\ Len(outcome.result.records) = 2

\* The joined rows of the subjects of the state a call names
StateRows == {r \in Join(db) : r.state = clean_state(call.args.state)}

\* x hundredths is the value of col in row r minus the mean of col over
\* StateRows
ExactDeviation(x, r, col) ==
  Cardinality(StateRows) * x
    = 100 * (Cardinality(StateRows) * Val(r, col) - SumOver(StateRows, col))

\* x hundredths is that difference rounded to two decimals
NearestDeviation(x, r, col) ==
  2 * Abs(Cardinality(StateRows) * x
            - 100 * (Cardinality(StateRows) * Val(r, col) - SumOver(StateRows, col)))
    <= Cardinality(StateRows)

OnePerStateRow ==
  LET recs == outcome.result.records
  IN /\ {recs[i][Lit("id")] : i \in DOMAIN recs} = {r.id : r \in StateRows}
     /\ Len(recs) = Cardinality(StateRows)
     /\ \A i, j \in DOMAIN recs :
          i < j => recs[i][Lit("carrier_reimb deviation")]
                     <= recs[j][Lit("carrier_reimb deviation")]

\* C14 as stated: one record per joined row of the state, ordered by
\* ascending reimbursement deviation, whose three deviation fields equal the
\* row's value minus the statewide mean of the same column.
C14_DeviationsExact ==
  (Called("claims_deviations_by_state") /\ Returns) =>
    /\ OnePerStateRow
    /\ \A rec \in Records : \E r \in StateRows :
         /\ rec[Lit("id")] = r.id /\ rec[Lit("state")] = r.state
         /\ ExactDeviation(rec[Lit("carrier_reimb deviation")], r, "carrier_reimb")
         /\ ExactDeviation(rec[Lit("bene_resp deviation")], r, "bene_resp")
         /\ ExactDeviation(rec[Lit("homo_mo deviation")], r, "hmo_mo")

\* C14 amended: one record per joined row of the state, ordered by ascending
\* reimbursement deviation, whose three deviation fields equal the row's
\* value minus the statewide mean of the same column, rounded to two
\* decimal places.
C14_DeviationsRounded ==
  (Called("claims_deviations_by_state") /\ Returns) =>
    /\ OnePerStateRow
    /\ \A rec \in Records : \E r \in StateRows :
         /\ rec[Lit("id")] = r.id /\ rec[Lit("state")] = r.state
         /\ NearestDeviation(rec[Lit("carrier_reimb deviation")], r, "carrier_reimb")
         /\ NearestDeviation(rec[Lit("bene_resp deviation")], r, "bene_resp")
         /\ NearestDeviation(rec[Lit("homo_mo deviation")], r, "hmo_mo")

\* Three subjects of the state whose mean reimbursement has more than two
\* decimals.
C14_Witness ==
  /\ Called("claims_deviations_by_state") /\ Returns
  /\ Len(outcome.result.records) = 3
  /\ (100 * SumOver(StateRows, "carrier_reimb")) % 3 # 0

\* The call executed its statement and fetched the rows
Fetched == call.metric # "none" /\ Len(queries) = 1 /\ outcome.type # "DatabaseError"

\* The keys of the shaping loop's dict are pairwise different, and so are
\* the columns they are taken from
FieldsFromDistinctColumns ==
  \A i, j \in DOMAIN shape :
    i # j => (shape[i][1] # shape[j][1] /\ shape[i][2] # shape[j][2])

\* C15: for every metric and every row sequence the executor returns, the
\* call returns a structure whose list has exactly one record per row, in
\* the order of the rows, all records having the same fields, and each field
\* holding the value of a distinct column of its row.
C15_OneRecordPerRowInOrder ==
  Fetched =>
    /\ Returns
    /\ Len(outcome.result.records) = Len(rows)
    /\ \A i \in DOMAIN rows :
         /\ DOMAIN outcome.result.records[i] = {shape[j][1] : j \in DOMAIN shape}
         /\ \A j \in DOMAIN shape :
              outcome.result.records[i][shape[j][1]] = rows[i][shape[j][2]]
    /\ FieldsFromDistinctColumns

\* The dimension an argument belongs to, as the error messages word it
Dimension(arg) ==
  CASE arg \in {"col", "disease", "disease1", "disease2"} -> "Disease"
    [] arg = "state" -> "State"
    [] arg = "status" -> "Status"
    [] arg = "race" -> "Race"
    [] arg = "sex" -> "Sex"
    [] arg = "stat" -> "Statistic"
    [] arg \in {"table_name", "table_name1", "table_name2"} -> "Table"
    [] OTHER -> "Category"

\* The forms in which a message may carry an argument: as passed, or cleaned
\* the way the functions clean it
ValueForms(v) == {v, re_sub_W(v), clean_state(v), clean_state_quoted(v)}

\* C16: whenever a metric rejects an argument, the error names the dimension
\* of an argument of the call and carries that argument's value; a rejected
\* state, status or disease is never reported under another dimension's
\* name.
C16_ErrorNamesRejectedDimension ==
  InvalidInput =>
    \E arg \in DOMAIN call.args :
      /\ outcome.dim = Dimension(arg)
      /\ outcome.value \in ValueForms(call.args[arg])

OtherArgsPass ==
  LET a == call.args
      m == call.metric
      raw == m = "disease_max_carrier_bene_ratio_by_state_sex"
  IN /\ m # "none"
     /\ HasArg("disease") => (IF raw THEN a.disease ELSE re_sub_W(a.disease)) \in diseases
     /\ HasArg("col") => (a.table_name = cmspop => a.col \in diseases)
     /\ HasArg("disease1") => re_sub_W(a.disease1) \in diseases
     /\ HasArg("race") => re_sub_W(a.race) \in races
     /\ HasArg("status") => re_sub_W(a.status) \in statuses
     /\ HasArg("sex") => re_sub_W(a.sex) \in sexes
     /\ HasArg("stat") => re_sub_W(a.stat) \in stats
     /\ HasArg("table_name") => (m = "disease_count_by_race" \/ a.table_name = cmspop)
     /\ HasArg("table_name1") => a.table_name1 = cmspop
     /\ HasArg("table_name2") => (m = "claims_deviations_by_state" \/ a.table_name2 = cmsclaims)

\* The state of the call, if it has one, is one its function's check accepts
StatePasses ==
  HasArg("state") =>
    (IF Called("disease_max_carrier_bene_ratio_by_state_sex")
       THEN call.args.state ELSE clean_state(call.args.state)) \in states

\* The arguments of the call are ones its function's checks accept
PassesValidation == OtherArgsPass /\ StatePasses

\* C18: a call whose arguments pass validation opens exactly one connection
\* and executes exactly one query on it; no call executes a query without
\* having opened a connection, or more than one query.
C18_OneConnectionOneQuery ==
  /\ PassesValidation => (conns = 1 /\ Len(queries) = 1)
  /\ Len(queries) <= 1
  /\ queries # <<>> => conns >= 1

\* C19: disease_count_by_race called with a table_name other than cmspop and
\* a valid disease, when its query succeeds, returns the shaped count
\* structure, one record per row, rather than ending in an error.
C19_OtherTableReturnsCounts ==
  (/\ Called("disease_count_by_race")
   /\ call.args.table_name # cmspop
   /\ call.args.col \in diseases
   /\ Fetched)
    => (Returns /\ Len(outcome.result.records) = Len(rows))

\* The state argument differs from an allowed two-letter code by letter
\* case at most
CaseVariant == upper(call.args.state) \in states

\* The state value of the statement the call executed
QueriedState ==
  LET q == queries[1]
  IN StateValue(q.args[IF q.template = "disease_max_carrier_bene_ratio_by_state_sex" THEN 4
                       ELSE IF q.template = "state_avg_life_expectancies_by_sex" THEN 2
                       ELSE 3])

\* carrier_reimb_avgs_select_state accepts the state argument of the call
AcceptedByAvgs ==
  \A t \in carrier_reimb_avgs_select_state_run(db, call.args.state, cmspop, cmsclaims) :
    t.outcome.type # "AssertionError"

\* C20: a state-scoped metric whose other arguments are valid accepts a
\* state argument that differs from an allowed two-letter code only by
\* letter case and queries that code, and it accepts a state argument
\* exactly when carrier_reimb_avgs_select_state accepts it: the six metrics
\* accept the same set of state strings.
C20_UniformStateNormalization ==
  (call.metric \in StateScoped /\ OtherArgsPass) =>
    /\ CaseVariant => (/\ ~InvalidInput
                       /\ Len(queries) = 1
                       /\ QueriedState = upper(call.args.state))
    /\ ~InvalidInput <=> AcceptedByAvgs

\* The state expression of the statement the call executed, as substituted
QueriedStateExpr ==
  LET q == queries[1]
  IN q.args[IF q.template = "disease_max_carrier_bene_ratio_by_state_sex" THEN 4
            ELSE IF q.template = "state_avg_life_expectancies_by_sex" THEN 2
            ELSE 3]

\* C21: a state-scoped metric that accepts its arguments, the state 'Othr'
\* included, substitutes the state into its query as a quoted string
\* literal, and the call returns a result instead of failing at execution.
C21_StateQuotedInQuery ==
  (call.metric \in StateScoped /\ PassesValidation) =>
    /\ Len(queries) = 1
    /\ IsLiteral(QueriedStateExpr)
    /\ Unquote(QueriedStateExpr) = clean_state(call.args.state)
    /\ Returns

\* The query template of a statistic
StatTemplate(stat) ==
  IF stat = mean THEN "stat_mean" ELSE IF stat = median THEN "stat_median" ELSE "stat_sd"

\* C22: stat_select_for_sex called with a stat whose cleaned form is mean,
\* median or sd (and otherwise valid arguments) executes exactly the query
\* of that statistic and returns records with that statistic's field names.
C22_AcceptedStatSelectsQuery ==
  (Called("stat_select_for_sex") /\ PassesValidation) =>
    /\ Len(queries) = 1
    /\ queries[1].template = StatTemplate(re_sub_W(call.args.stat))
    /\ Returns
    /\ \A rec \in Records :
         DOMAIN rec = {Lit("sex")} \cup
                        {Lit(k) : k \in Range(StatKeys(re_sub_W(call.args.stat)))}

\* The sexes that have a deceased subject with all four flags false in the
\* state a call names
HealthySexes ==
  {r.sex : r \in {x \in DeceasedInState : Flags(x) = <<FALSE, FALSE, FALSE, FALSE>>}}

\* C23: state_avg_life_expectancies_by_sex returns a record for a (state,
\* sex) group if and only if the group has a deceased subject with all four
\* disease flags false: one record for each such sex of the state, none for
\* a group whose deceased subjects all have a disease, and every record has
\* a non-null healthy average.
C23_RecordIffHealthyCohort ==
  (Called("state_avg_life_expectancies_by_sex") /\ Returns) =>
    LET recs == outcome.result.records
    IN /\ {recs[i][Lit("sex")] : i \in DOMAIN recs} = HealthySexes
       /\ Len(recs) = Cardinality(HealthySexes)
       /\ \A i \in DOMAIN recs :
            /\ recs[i][Lit("state")] = clean_state(call.args.state)
            /\ recs[i][Lit("avg healthy life expectancy")] # NULL

\* One sex of the state has a healthy deceased subject and gets a record;
\* the deceased subjects of the other sex all have a disease and get none.
C23_Witness ==
  /\ Called("state_avg_life_expectancies_by_sex") /\ Returns
  /\ Len(outcome.result.records) = 1
  /\ Cardinality({r.sex : r \in DeceasedInState}) = 2

====
